---- MODULE Spec2Model ----
(***************************************************************************)
(* Model of src/src/useAuth.ts (lines 1-262, the current useAuth): the     *)
(* module-level session state, the operations returned by useAuth() and    *)
(* the axios response interceptor.  One action per handler step: a step    *)
(* runs from one suspension point (await / timer / call) to the next.      *)
(***************************************************************************)
EXTENDS Integers, Sequences, FiniteSets, TLC

----------------------------------------------------------------------------
(* Bounds of the model *)

\* at most this many entries in failedRequestsQueue
MaxQueue == 2
\* at most this many refresh-grant requests awaiting their response
MaxInFlight == 2

(* Program constants *)

\* 60 * 1000, the default pre-fetch window
DefaultPreFetchInMs == 60000
\* data.expires_in * 1000
MsPerSecond == 1000
\* the status the interceptor reacts to
Unauthorized == 401

(* Inputs *)

\* values Date.now() may return, in ms
Times == {0, 60000}
\* access tokens the token endpoint may issue
Tokens == {1, 2}
\* status of an error response: 401, or another failure
Statuses == {401, 500}
\* the url of the token endpoint, and of the other requests
TokenUrl == "/oauth/token"
\* requests issued through axios by getUser() and revoke(); a request of the
\* application to a protected endpoint takes the path of revoke's
Reqs == {"getUser", "revoke"}
\* what the token endpoint may answer to a grant
\* a grant that outlives the pre-fetch window (120 s) and one that does not (30 s)
Responses ==
  {[access_token |-> 1, refresh_token |-> 11, token_type |-> "Bearer", expires_in |-> 120],
   [access_token |-> 2, refresh_token |-> 12, token_type |-> "Bearer", expires_in |-> 30]}
\* handles setTimeout may return
TimerIds == {1, 2}

\* `null`, for oAuth and user
NULL == [null |-> TRUE]
\* `null`, for the timer handle
NoTimer == 0
\* the user object the user-info endpoint answers
UserData == [id |-> 1]
\* no interceptor invocation is suspended in `await refreshToken()`
NoHolder == [req |-> "-", err |-> 0, replay |-> FALSE]
\* who starts a refresh grant: setRefreshTokenTimeout (its callback, or at
\* once), or the interceptor
Origins == {"timer", "interceptor"}

VARIABLES
  oAuth,                 \* ref<OAuth | null>
  user,                  \* ref<unknown | null>
  refreshTokenTimeout,   \* the module-level timer handle
  timers,                \* pending setTimeout callbacks: [id, delay]
  isRefreshingToken,     \* the in-flight flag
  failedRequestsQueue,   \* requests waiting to be replayed, in arrival order
  holder,                \* the interceptor invocation awaiting refreshToken()
  shouldRefreshToken,    \* options.autoRefreshAccessToken is true or an object
  signInFlight,          \* password-grant requests awaiting their response
  refreshInFlight,       \* refresh-grant requests awaiting their response, by origin
  call,                  \* state of each request issued through axios
  replays,               \* replayed requests awaiting their response
  batch,                 \* since the flag was last clear: the 401s of protected
                         \* requests, in arrival order, and the refresh grants
                         \* the interceptor sent (observation)
  Authorization,         \* axios.defaults.headers.common.Authorization
  localStorage,          \* the 'oAuth' item of localStorage
  out                    \* what the last handler step did (observation)

vars == <<oAuth, user, refreshTokenTimeout, timers, isRefreshingToken,
          failedRequestsQueue, holder, shouldRefreshToken, signInFlight,
          refreshInFlight, call, replays, batch, Authorization, localStorage,
          out>>

----------------------------------------------------------------------------
(* Pure parts of the code *)

\* isAuthenticated as a function of the token bundle
isAuthenticatedByBundle == oAuth /= NULL

\* const isAuthenticated = computed(() => user.value !== null)
isAuthenticated == user /= NULL

\* typeof autoRefreshAccessToken === 'object' ? preFetchInMs : 60 * 1000
refreshTokenTimeoutInMs == DefaultPreFetchInMs

\* the bundle signIn and refreshToken store: the response's fields, and
\* expiresAt: Date.now() + data.expires_in * 1000
NewBundle(data, t) ==
  [accessToken  |-> data.access_token,
   refreshToken |-> data.refresh_token,
   tokenType    |-> data.token_type,
   expiresIn    |-> data.expires_in,
   expiresAt    |-> t + data.expires_in * MsPerSecond]

\* `Bearer ${accessToken}`
Bearer(accessToken) == <<"Bearer", accessToken>>

\* JSON.stringify of the bundle: the text "null", or the object's members
\* in the order signIn and refreshToken write them
JSONstringify(oa) ==
  IF oa = NULL
    THEN <<"null">>
    ELSE <<"accessToken", oa.accessToken, "refreshToken", oa.refreshToken,
           "tokenType", oa.tokenType, "expiresIn", oa.expiresIn,
           "expiresAt", oa.expiresAt>>

\* JSON.parse of the 'oAuth' item
JSONparse(text) ==
  IF text = <<"null">>
    THEN NULL
    ELSE [accessToken |-> text[2], refreshToken |-> text[4],
          tokenType |-> text[6], expiresIn |-> text[8], expiresAt |-> text[10]]

\* the watcher as it was: the header is written only for a bundle
WatchKeepsHeader(oa, header) ==
  [Authorization |-> IF oa /= NULL THEN Bearer(oa.accessToken) ELSE header,
   localStorage  |-> JSONstringify(oa)]

\* watch(oAuth, ...): the default header and the 'oAuth' item after the
\* callback has run for the bundle oa
Watch(oa, header) ==
  [Authorization |-> IF oa = NULL THEN <<>> ELSE Bearer(oa.accessToken),
   localStorage  |-> JSONstringify(oa)]

\* a handle setTimeout may return: not the one of a pending callback, and
\* not the one the module-level variable still holds
FreshTimer(handle, tms) ==
  CHOOSE i \in TimerIds : i /= handle /\ \A x \in tms : x.id /= i

\* clearTimeout(handle)
ClearTimeout(handle, tms) == {x \in tms : x.id /= handle}

\* setRefreshTokenTimeout without the clearTimeout
SetRefreshTokenTimeoutNoClear(oa, handle, tms, t) ==
  LET timeoutInMs == oa.expiresAt - t - refreshTokenTimeoutInMs
  IN IF timeoutInMs > 0
       THEN LET id == FreshTimer(handle, tms)
            IN [handle  |-> id,
                timers  |-> tms \cup {[id |-> id, delay |-> timeoutInMs]},
                refresh |-> FALSE]
       ELSE [handle |-> handle, timers |-> tms, refresh |-> TRUE]

\* setRefreshTokenTimeout with `timeoutInMs >= 0`
SetRefreshTokenTimeoutFromZero(oa, handle, tms, t) ==
  LET cleared     == IF handle /= NoTimer THEN ClearTimeout(handle, tms) ELSE tms
      timeoutInMs == oa.expiresAt - t - refreshTokenTimeoutInMs
  IN IF timeoutInMs >= 0
       THEN LET id == FreshTimer(handle, cleared)
            IN [handle  |-> id,
                timers  |-> cleared \cup {[id |-> id, delay |-> timeoutInMs]},
                refresh |-> FALSE]
       ELSE [handle |-> handle, timers |-> cleared, refresh |-> TRUE]

\* setRefreshTokenTimeout(), called with bundle oa at time t: the handle and
\* the pending callbacks afterwards, and whether refreshToken() was invoked
\* at once (the else branch)
SetRefreshTokenTimeout(oa, handle, tms, t) ==
  LET cleared     == IF handle /= NoTimer THEN ClearTimeout(handle, tms) ELSE tms
      timeoutInMs == oa.expiresAt - t - refreshTokenTimeoutInMs
  IN IF timeoutInMs > 0
       THEN LET id == FreshTimer(handle, cleared)
            IN [handle  |-> id,
                timers  |-> cleared \cup {[id |-> id, delay |-> timeoutInMs]},
                refresh |-> FALSE]
       ELSE [handle |-> handle, timers |-> cleared, refresh |-> TRUE]

\* the scheduling done after a bundle is stored (signIn, refreshToken) and at
\* start-up: `if (shouldRefreshToken) setRefreshTokenTimeout()`
Schedule(should, oa, handle, tms, t) ==
  IF should
    THEN SetRefreshTokenTimeout(oa, handle, tms, t)
    ELSE [handle |-> handle, timers |-> tms, refresh |-> FALSE]

\* the early return without the test of the url
ShouldPropagateAnyUrl(status, url, oa) ==
  status /= Unauthorized \/ oa = NULL

\* the interceptor's early return: the error is passed on untouched
ShouldPropagate(status, url, oa) ==
  status /= Unauthorized \/ oa = NULL \/ url = TokenUrl

\* processQueue(accessToken): every queued request, in queue order, is sent
\* again with `Authorization: Bearer <accessToken>`
ProcessQueue(queue, accessToken) ==
  [i \in 1..Len(queue) |-> [req |-> queue[i], token |-> accessToken]]

\* the handler without the test of the flag: every 401 starts a refresh
InterceptorNoFlag(status, url, r, isReplay, oa, queue, flag, h) ==
  IF status /= Unauthorized \/ oa = NULL \/ url = TokenUrl
    THEN [queue |-> queue, flag |-> flag, holder |-> h,
          queued |-> FALSE, start |-> FALSE]
    ELSE [queue  |-> Append(queue, r),
          flag   |-> TRUE,
          holder |-> [req |-> r, err |-> status, replay |-> isReplay],
          queued |-> TRUE,
          start  |-> TRUE]

\* the interceptor's error handler up to `await refreshToken()`, for an error
\* of request r: the queue, the flag and the suspended invocation afterwards,
\* whether the request was queued, and whether refreshToken() was started
Interceptor(status, url, r, isReplay, oa, queue, flag, h) ==
  IF ShouldPropagate(status, url, oa)
    THEN [queue |-> queue, flag |-> flag, holder |-> h,
          queued |-> FALSE, start |-> FALSE]
    ELSE [queue  |-> Append(queue, r),
          flag   |-> TRUE,
          holder |-> IF flag THEN h ELSE [req |-> r, err |-> status, replay |-> isReplay],
          queued |-> TRUE,
          start  |-> ~flag]

\* the interceptor reading `oAuth.value?.accessToken`: the queue is replayed
\* after a rejected refresh too, without a token
InterceptorResumeAnyway(oa, queue) ==
  ProcessQueue(queue, IF oa = NULL THEN 0 ELSE oa.accessToken)

\* the interceptor after `await refreshToken()`: the replays it sends.
\* `oAuth.value.accessToken` throws on null and the empty catch swallows it
InterceptorResume(oa, queue) ==
  IF oa = NULL THEN <<>> ELSE ProcessQueue(queue, oa.accessToken)

\* the suspended invocation returning the response of its replay
HeldResultOfReplay(h) == [result |-> "fulfilled", err |-> 0]

\* how the suspended invocation ends: `return await Promise.reject(err)`
HeldResult(h) == [result |-> "rejected", err |-> h.err]

\* the requests of a sequence of replays
ReplayedReqs(rs) == {rs[i].req : i \in 1..Len(rs)}

\* the url a request is sent to
UrlOf(r) ==
  CASE r = "getUser" -> "/users/me"
    [] r = "revoke"  -> "/oauth/revoke"
    [] OTHER         -> TokenUrl

\* number of refresh-grant requests awaiting their response
RefreshCount == refreshInFlight["timer"] + refreshInFlight["interceptor"]

\* one more refresh-grant request of origin o, when `yes`
AddRefresh(rif, o, yes) == IF yes THEN [rif EXCEPT ![o] = @ + 1] ELSE rif

\* a handler step that did nothing observable
NoObs ==
  [op |-> "-", req |-> "-", url |-> "-", status |-> 0, origin |-> "-",
   result |-> "-", err |-> 0, thrown |-> "",
   refreshSent |-> 0, otherSent |-> 0, callbacks |-> 0, replayed |-> <<>>,
   arrived |-> <<>>, started |-> 0, queued |-> FALSE, propagated |-> FALSE,
   authorization |-> <<>>, now |-> -1]

\* no 401 is waiting for a refresh
NoBatch == [arrived |-> <<>>, started |-> 0]

\* the error is a 401 answered to a protected request during a session
IsProtected401(status, url, oa) ==
  status = Unauthorized /\ url /= TokenUrl /\ oa /= NULL

\* the observation of an error of request r reaching the interceptor, whose
\* handler did e
Arrive(b, status, url, oa, r, e) ==
  [arrived |-> IF IsProtected401(status, url, oa) THEN Append(b.arrived, r) ELSE b.arrived,
   started |-> IF e.start THEN b.started + 1 ELSE b.started]

----------------------------------------------------------------------------
(* The state after the module is loaded and useAuth(options) has returned *)

\* bundles localStorage may hold at start-up
PersistedBundles ==
  {[accessToken |-> 1, refreshToken |-> 11, tokenType |-> "Bearer",
    expiresIn |-> 120, expiresAt |-> e] : e \in {0, 120000}}

Init ==
  /\ shouldRefreshToken \in BOOLEAN
  /\ \E item \in {JSONstringify(b) : b \in {NULL} \cup PersistedBundles} :
       /\ oAuth = JSONparse(item)
       /\ Authorization = Watch(oAuth, <<>>).Authorization
       /\ localStorage = Watch(oAuth, <<>>).localStorage
  /\ user = NULL
  /\ \E t \in Times :
     LET s == IF oAuth /= NULL
                THEN Schedule(shouldRefreshToken, oAuth, NoTimer, {}, t)
                ELSE [handle |-> NoTimer, timers |-> {}, refresh |-> FALSE]
     IN /\ refreshTokenTimeout = s.handle
        /\ timers = s.timers
        /\ refreshInFlight =
             AddRefresh([o \in Origins |-> 0], "timer", s.refresh)
        /\ out = [NoObs EXCEPT !.op = "useAuth",
                               !.now = IF oAuth /= NULL /\ shouldRefreshToken
                                         THEN t ELSE -1,
                               !.refreshSent = IF s.refresh THEN 1 ELSE 0]
  /\ isRefreshingToken = FALSE
  /\ failedRequestsQueue = <<>>
  /\ holder = NoHolder
  /\ signInFlight = 0
  /\ call = [r \in Reqs |-> "idle"]
  /\ replays = {}
  /\ batch = NoBatch

\* useAuth(options) is called again, by another component, while a bundle
\* is stored and auto-refresh is on: the further instance schedules on the
\* module-level handle like the first one (without a bundle, or without
\* auto-refresh, its construction leaves the module state as it is).  The
\* response interceptor the further instance registers is not followed:
\* errors are handled by one interceptor
UseAuth(t) ==
  /\ oAuth /= NULL /\ shouldRefreshToken
  /\ LET s == SetRefreshTokenTimeout(oAuth, refreshTokenTimeout, timers, t)
     IN /\ s.refresh => RefreshCount < MaxInFlight
        /\ refreshTokenTimeout' = s.handle
        /\ timers' = s.timers
        /\ refreshInFlight' = AddRefresh(refreshInFlight, "timer", s.refresh)
        /\ out' = [NoObs EXCEPT !.op = "useAuth", !.now = t,
                                !.refreshSent = IF s.refresh THEN 1 ELSE 0]
  /\ UNCHANGED <<oAuth, user, isRefreshingToken, failedRequestsQueue, holder,
                 shouldRefreshToken, signInFlight, call, replays, batch,
                 Authorization, localStorage>>

----------------------------------------------------------------------------
(* signIn *)

\* signIn up to its await: the password grant is sent
SignInSend ==
  /\ signInFlight < 1
  /\ signInFlight' = signInFlight + 1
  /\ out' = [NoObs EXCEPT !.op = "SignInSend", !.otherSent = 1]
  /\ UNCHANGED <<Authorization, localStorage>>
  /\ UNCHANGED <<oAuth, user, refreshTokenTimeout, timers, isRefreshingToken,
                 failedRequestsQueue, holder, shouldRefreshToken,
                 refreshInFlight, call, replays, batch>>

\* the token endpoint accepts: the bundle is stored and the timer scheduled
SignInOk(data, t) ==
  /\ signInFlight > 0
  /\ LET oa == NewBundle(data, t)
         s  == Schedule(shouldRefreshToken, oa, refreshTokenTimeout, timers, t)
     IN /\ s.refresh => RefreshCount < MaxInFlight
        /\ oAuth' = oa
        /\ refreshTokenTimeout' = s.handle
        /\ timers' = s.timers
        /\ refreshInFlight' = AddRefresh(refreshInFlight, "timer", s.refresh)
        /\ out' = [NoObs EXCEPT !.op = "SignInOk", !.req = "signIn",
                     !.result = "fulfilled", !.now = t,
                     !.refreshSent = IF s.refresh THEN 1 ELSE 0]
  /\ signInFlight' = signInFlight - 1
  /\ Authorization' = Watch(oAuth', Authorization).Authorization
  /\ localStorage' = Watch(oAuth', Authorization).localStorage
  /\ UNCHANGED <<user, isRefreshingToken, failedRequestsQueue, holder,
                 shouldRefreshToken, call, replays, batch>>

\* the token endpoint rejects: the error passes the interceptor and signIn
\* rejects with it
SignInFail(status) ==
  /\ signInFlight > 0
  /\ LET e == Interceptor(status, TokenUrl, "signIn", FALSE, oAuth,
                          failedRequestsQueue, isRefreshingToken, holder)
     IN /\ e.queued => Len(failedRequestsQueue) < MaxQueue
        /\ e.start => RefreshCount < MaxInFlight
        /\ failedRequestsQueue' = e.queue
        /\ isRefreshingToken' = e.flag
        /\ holder' = e.holder
        /\ refreshInFlight' = AddRefresh(refreshInFlight, "interceptor", e.start)
        /\ batch' = Arrive(batch, status, TokenUrl, oAuth, "signIn", e)
        /\ out' = [NoObs EXCEPT !.op = "SignInFail", !.req = "signIn",
                     !.url = TokenUrl, !.status = status,
                     !.result = IF e.start THEN "pending" ELSE "rejected",
                     !.err = IF e.start THEN 0 ELSE status,
                     !.queued = e.queued, !.propagated = ~e.queued,
                     !.refreshSent = IF e.start THEN 1 ELSE 0]
  /\ signInFlight' = signInFlight - 1
  /\ UNCHANGED <<oAuth, user, refreshTokenTimeout, timers, shouldRefreshToken,
                 call, replays, Authorization, localStorage>>

----------------------------------------------------------------------------
(* refreshToken *)

\* refreshToken: `if (oAuth.value === null) throw new Error('Not logged in')`
RefreshThrows(oa) == oa = NULL

\* a scheduled callback runs, at some point after it was scheduled (the
\* delay orders nothing else): refreshToken() throws without a bundle, else
\* sends the refresh grant
TimerFire(t) ==
  /\ t \in timers
  /\ timers' = timers \ {t}
  /\ IF RefreshThrows(oAuth)
       THEN /\ out' = [NoObs EXCEPT !.op = "TimerFire", !.thrown = "Not logged in"]
            /\ UNCHANGED refreshInFlight
       ELSE /\ RefreshCount < MaxInFlight
            /\ refreshInFlight' = AddRefresh(refreshInFlight, "timer", TRUE)
            /\ out' = [NoObs EXCEPT !.op = "TimerFire", !.origin = "timer",
                         !.refreshSent = 1]
  /\ UNCHANGED <<oAuth, user, refreshTokenTimeout, isRefreshingToken,
                 failedRequestsQueue, holder, shouldRefreshToken,
                 signInFlight, call, replays, batch, Authorization,
                 localStorage>>

\* the call of the suspended interceptor invocation h is settled
SettleHeld(c, h) ==
  IF h.req \in Reqs /\ ~h.replay THEN [c EXCEPT ![h.req] = "idle"] ELSE c

\* the refresh grant of origin o is accepted: refreshToken stores the bundle
\* and schedules; the interceptor that awaited it replays the queue, clears
\* the queue and the flag and rejects its own request
RefreshOk(o, data, t) ==
  /\ refreshInFlight[o] > 0
  /\ LET oa  == NewBundle(data, t)
         s   == Schedule(shouldRefreshToken, oa, refreshTokenTimeout, timers, t)
         rif == [refreshInFlight EXCEPT ![o] = @ - 1]
         rs  == InterceptorResume(oa, failedRequestsQueue)
         hr  == HeldResult(holder)
     IN /\ oAuth' = oa
        /\ refreshTokenTimeout' = s.handle
        /\ timers' = s.timers
        /\ refreshInFlight' = AddRefresh(rif, "timer", s.refresh)
        /\ IF o = "interceptor"
             THEN /\ replays' = replays \cup ReplayedReqs(rs)
                  /\ failedRequestsQueue' = <<>>
                  /\ isRefreshingToken' = FALSE
                  /\ holder' = NoHolder
                  /\ call' = SettleHeld(call, holder)
                  /\ batch' = NoBatch
                  /\ out' = [NoObs EXCEPT !.op = "RefreshOk", !.origin = o,
                               !.req = holder.req,
                               !.result = hr.result, !.err = hr.err,
                               !.replayed = rs,
                               !.arrived = batch.arrived, !.started = batch.started,
                               !.now = t,
                               !.refreshSent = IF s.refresh THEN 1 ELSE 0]
             ELSE /\ out' = [NoObs EXCEPT !.op = "RefreshOk", !.origin = o,
                               !.now = t,
                               !.refreshSent = IF s.refresh THEN 1 ELSE 0]
                  /\ UNCHANGED <<replays, failedRequestsQueue, isRefreshingToken,
                                 holder, call, batch>>
  /\ Authorization' = Watch(oAuth', Authorization).Authorization
  /\ localStorage' = Watch(oAuth', Authorization).localStorage
  /\ UNCHANGED <<user, shouldRefreshToken, signInFlight>>

\* a catch block that does not call onRefreshTokenFailed
RefreshCatchSilent(oa, u) == [oAuth |-> NULL, user |-> u, callbacks |-> 0]

\* what refreshToken's catch block leaves: the bundle, the user, and the
\* number of onRefreshTokenFailed invocations
RefreshCatch(oa, u) == [oAuth |-> NULL, user |-> u, callbacks |-> 1]

\* the handler without its catch: the TypeError of `oAuth.value.accessToken`
\* leaves it before the queue and the flag are reset
RefreshFailUncaught(o, status) ==
  /\ refreshInFlight[o] > 0
  /\ LET e   == Interceptor(status, TokenUrl, "refresh", FALSE, oAuth,
                            failedRequestsQueue, isRefreshingToken, holder)
         c   == RefreshCatch(oAuth, user)
         rif == [refreshInFlight EXCEPT ![o] = @ - 1]
         rs  == InterceptorResume(c.oAuth, e.queue)
         hr  == HeldResult(e.holder)
         b   == Arrive(batch, status, TokenUrl, oAuth, "refresh", e)
     IN /\ e.queued => Len(failedRequestsQueue) < MaxQueue
        /\ oAuth' = c.oAuth
        /\ user' = c.user
        /\ refreshInFlight' = AddRefresh(rif, "interceptor", e.start)
        /\ IF o = "interceptor"
             THEN /\ replays' = replays \cup ReplayedReqs(rs)
                  /\ failedRequestsQueue' = IF c.oAuth = NULL THEN e.queue ELSE <<>>
                  /\ isRefreshingToken' = (c.oAuth = NULL)
                  /\ holder' = NoHolder
                  /\ call' = SettleHeld(call, e.holder)
                  /\ batch' = NoBatch
                  /\ out' = [NoObs EXCEPT !.op = "RefreshFail", !.origin = o,
                               !.req = e.holder.req,
                               !.url = TokenUrl, !.status = status,
                               !.result = hr.result, !.err = hr.err,
                               !.replayed = rs, !.callbacks = c.callbacks,
                               !.arrived = b.arrived, !.started = b.started,
                               !.queued = e.queued, !.propagated = ~e.queued,
                               !.refreshSent = IF e.start THEN 1 ELSE 0]
             ELSE /\ failedRequestsQueue' = e.queue
                  /\ isRefreshingToken' = e.flag
                  /\ holder' = e.holder
                  /\ batch' = b
                  /\ out' = [NoObs EXCEPT !.op = "RefreshFail", !.origin = o,
                               !.url = TokenUrl, !.status = status,
                               !.callbacks = c.callbacks,
                               !.queued = e.queued, !.propagated = ~e.queued,
                               !.refreshSent = IF e.start THEN 1 ELSE 0]
                  /\ UNCHANGED <<replays, call>>
  /\ Authorization' = Watch(oAuth', Authorization).Authorization
  /\ localStorage' = Watch(oAuth', Authorization).localStorage
  /\ UNCHANGED <<refreshTokenTimeout, timers, shouldRefreshToken, signInFlight>>

\* the refresh grant of origin o is rejected: the error passes the
\* interceptor, refreshToken's catch clears the bundle and calls
\* onRefreshTokenFailed; the interceptor that awaited it finds no bundle,
\* clears the queue and the flag and rejects its own request
RefreshFail(o, status) ==
  /\ refreshInFlight[o] > 0
  /\ LET e   == Interceptor(status, TokenUrl, "refresh", FALSE, oAuth,
                            failedRequestsQueue, isRefreshingToken, holder)
         c   == RefreshCatch(oAuth, user)
         rif == [refreshInFlight EXCEPT ![o] = @ - 1]
         rs  == InterceptorResume(c.oAuth, e.queue)
         hr  == HeldResult(e.holder)
         b   == Arrive(batch, status, TokenUrl, oAuth, "refresh", e)
     IN /\ e.queued => Len(failedRequestsQueue) < MaxQueue
        /\ oAuth' = c.oAuth
        /\ user' = c.user
        /\ refreshInFlight' = AddRefresh(rif, "interceptor", e.start)
        /\ IF o = "interceptor"
             THEN /\ replays' = replays \cup ReplayedReqs(rs)
                  /\ failedRequestsQueue' = <<>>
                  /\ isRefreshingToken' = FALSE
                  /\ holder' = NoHolder
                  /\ call' = SettleHeld(call, e.holder)
                  /\ batch' = NoBatch
                  /\ out' = [NoObs EXCEPT !.op = "RefreshFail", !.origin = o,
                               !.req = e.holder.req,
                               !.url = TokenUrl, !.status = status,
                               !.result = hr.result, !.err = hr.err,
                               !.replayed = rs, !.callbacks = c.callbacks,
                               !.arrived = b.arrived, !.started = b.started,
                               !.queued = e.queued, !.propagated = ~e.queued,
                               !.refreshSent = IF e.start THEN 1 ELSE 0]
             ELSE /\ failedRequestsQueue' = e.queue
                  /\ isRefreshingToken' = e.flag
                  /\ holder' = e.holder
                  /\ batch' = b
                  /\ out' = [NoObs EXCEPT !.op = "RefreshFail", !.origin = o,
                               !.url = TokenUrl, !.status = status,
                               !.callbacks = c.callbacks,
                               !.queued = e.queued, !.propagated = ~e.queued,
                               !.refreshSent = IF e.start THEN 1 ELSE 0]
                  /\ UNCHANGED <<replays, call>>
  /\ Authorization' = Watch(oAuth', Authorization).Authorization
  /\ localStorage' = Watch(oAuth', Authorization).localStorage
  /\ UNCHANGED <<refreshTokenTimeout, timers, shouldRefreshToken, signInFlight>>

----------------------------------------------------------------------------
(* signOut *)

\* signOut without clearTimeout
SignOutKeepsTimer(handle, tms) == [oAuth |-> NULL, user |-> NULL, timers |-> tms]

\* what signOut leaves of the bundle, the user and the pending callbacks
SignOutState(handle, tms) ==
  [oAuth  |-> NULL,
   user   |-> NULL,
   timers |-> IF handle /= NoTimer THEN ClearTimeout(handle, tms) ELSE tms]

SignOut ==
  /\ LET s == SignOutState(refreshTokenTimeout, timers)
     IN /\ oAuth' = s.oAuth
        /\ user' = s.user
        /\ timers' = s.timers
  /\ out' = [NoObs EXCEPT !.op = "SignOut", !.result = "returned"]
  /\ Authorization' = Watch(oAuth', Authorization).Authorization
  /\ localStorage' = Watch(oAuth', Authorization).localStorage
  /\ UNCHANGED <<refreshTokenTimeout, isRefreshingToken, failedRequestsQueue,
                 holder, shouldRefreshToken, signInFlight, refreshInFlight,
                 call, replays, batch>>

----------------------------------------------------------------------------
(* getUser, revoke and the application's own requests *)

\* getUser with the test inverted
GetUserThrowsInverted(oa) == oa /= NULL

\* revoke without the test, as invalidateToken was
RevokeNeverThrows(oa) == FALSE

\* getUser: `if (oAuth.value === null) throw new Error('Not logged in')`
GetUserThrows(oa) == oa = NULL

\* revoke: `if (oAuth.value === null) throw new Error('Not logged in')`
RevokeThrows(oa) == oa = NULL

\* a call of r throws before anything is sent
Throws(r, oa) ==
  CASE r = "getUser" -> GetUserThrows(oa)
    [] r = "revoke"  -> RevokeThrows(oa)
    [] OTHER         -> FALSE

\* getUser() / revoke() / a request of the application, up to its await:
\* either 'Not logged in' is thrown or the request is sent
Call(r) ==
  /\ call[r] = "idle"
  /\ IF Throws(r, oAuth)
       THEN /\ out' = [NoObs EXCEPT !.op = "Call", !.req = r,
                         !.result = "rejected", !.thrown = "Not logged in"]
            /\ UNCHANGED call
       ELSE /\ call' = [call EXCEPT ![r] = "sent"]
            /\ out' = [NoObs EXCEPT !.op = "Call", !.req = r, !.result = "pending",
                         !.otherSent = 1, !.authorization = Authorization]
  /\ UNCHANGED <<Authorization, localStorage>>
  /\ UNCHANGED <<oAuth, user, refreshTokenTimeout, timers, isRefreshingToken,
                 failedRequestsQueue, holder, shouldRefreshToken,
                 signInFlight, refreshInFlight, replays, batch>>

\* a revoke that signs out locally once the server has answered
ResponseOkRevokeSignsOut(r) ==
  /\ call[r] = "sent"
  /\ call' = [call EXCEPT ![r] = "idle"]
  /\ user' = IF r = "getUser" THEN UserData ELSE NULL
  /\ oAuth' = IF r = "getUser" THEN oAuth ELSE NULL
  /\ out' = [NoObs EXCEPT !.op = "ResponseOk", !.req = r, !.result = "fulfilled"]
  /\ Authorization' = Watch(oAuth', Authorization).Authorization
  /\ localStorage' = Watch(oAuth', Authorization).localStorage
  /\ UNCHANGED <<refreshTokenTimeout, timers, isRefreshingToken,
                 failedRequestsQueue, holder, shouldRefreshToken,
                 signInFlight, refreshInFlight, replays, batch>>

\* the request of r is answered with success; getUser stores the user
ResponseOk(r) ==
  /\ call[r] = "sent"
  /\ call' = [call EXCEPT ![r] = "idle"]
  /\ user' = IF r = "getUser" THEN UserData ELSE user
  /\ out' = [NoObs EXCEPT !.op = "ResponseOk", !.req = r, !.result = "fulfilled"]
  /\ UNCHANGED <<Authorization, localStorage>>
  /\ UNCHANGED <<oAuth, refreshTokenTimeout, timers, isRefreshingToken,
                 failedRequestsQueue, holder, shouldRefreshToken,
                 signInFlight, refreshInFlight, replays, batch>>

\* the request of r is answered with an error: the interceptor runs.  The
\* first 401 starts refreshToken() and stays suspended; any other error
\* rejects the call at once
ResponseErr(r, status) ==
  /\ call[r] = "sent"
  /\ LET e == Interceptor(status, UrlOf(r), r, FALSE, oAuth,
                          failedRequestsQueue, isRefreshingToken, holder)
     IN /\ e.queued => Len(failedRequestsQueue) < MaxQueue
        /\ e.start => RefreshCount < MaxInFlight
        /\ failedRequestsQueue' = e.queue
        /\ isRefreshingToken' = e.flag
        /\ holder' = e.holder
        /\ refreshInFlight' = AddRefresh(refreshInFlight, "interceptor", e.start)
        /\ call' = [call EXCEPT ![r] = IF e.start THEN "held" ELSE "idle"]
        /\ batch' = Arrive(batch, status, UrlOf(r), oAuth, r, e)
        /\ out' = [NoObs EXCEPT !.op = "ResponseErr", !.req = r,
                     !.url = UrlOf(r), !.status = status,
                     !.result = IF e.start THEN "pending" ELSE "rejected",
                     !.err = IF e.start THEN 0 ELSE status,
                     !.queued = e.queued, !.propagated = ~e.queued,
                     !.refreshSent = IF e.start THEN 1 ELSE 0]
  /\ UNCHANGED <<oAuth, user, refreshTokenTimeout, timers, shouldRefreshToken,
                 signInFlight, replays, Authorization, localStorage>>

----------------------------------------------------------------------------
(* replays: their promises are dropped by processQueue *)

ReplayOk(r) ==
  /\ r \in replays
  /\ replays' = replays \ {r}
  /\ out' = [NoObs EXCEPT !.op = "ReplayOk", !.req = r]
  /\ UNCHANGED <<Authorization, localStorage>>
  /\ UNCHANGED <<oAuth, user, refreshTokenTimeout, timers, isRefreshingToken,
                 failedRequestsQueue, holder, shouldRefreshToken,
                 signInFlight, refreshInFlight, call, batch>>

\* a replay is answered with an error: the interceptor runs for it too
ReplayErr(r, status) ==
  /\ r \in replays
  /\ LET e == Interceptor(status, UrlOf(r), r, TRUE, oAuth,
                          failedRequestsQueue, isRefreshingToken, holder)
     IN /\ e.queued => Len(failedRequestsQueue) < MaxQueue
        /\ e.start => RefreshCount < MaxInFlight
        /\ failedRequestsQueue' = e.queue
        /\ isRefreshingToken' = e.flag
        /\ holder' = e.holder
        /\ refreshInFlight' = AddRefresh(refreshInFlight, "interceptor", e.start)
        /\ batch' = Arrive(batch, status, UrlOf(r), oAuth, r, e)
        /\ out' = [NoObs EXCEPT !.op = "ReplayErr", !.req = r,
                     !.url = UrlOf(r), !.status = status,
                     !.queued = e.queued, !.propagated = ~e.queued,
                     !.refreshSent = IF e.start THEN 1 ELSE 0]
  /\ replays' = replays \ {r}
  /\ UNCHANGED <<oAuth, user, refreshTokenTimeout, timers, shouldRefreshToken,
                 signInFlight, call, Authorization, localStorage>>

----------------------------------------------------------------------------
Next ==
  \/ \E t \in Times : UseAuth(t)
  \/ SignInSend
  \/ \E d \in Responses, t \in Times : SignInOk(d, t)
  \/ \E st \in Statuses : SignInFail(st)
  \/ \E t \in timers : TimerFire(t)
  \/ \E o \in Origins, d \in Responses, t \in Times : RefreshOk(o, d, t)
  \/ \E o \in Origins, st \in Statuses : RefreshFail(o, st)
  \/ SignOut
  \/ \E r \in Reqs : Call(r)
  \/ \E r \in Reqs : ResponseOk(r)
  \/ \E r \in Reqs, st \in Statuses : ResponseErr(r, st)
  \/ \E r \in replays : ReplayOk(r)
  \/ \E r \in replays, st \in Statuses : ReplayErr(r, st)

Spec == Init /\ [][Next]_vars

\* the response to the refresh grant the interceptor awaits arrives
InterceptorRefreshSettles ==
  \/ \E d \in Responses, t \in Times : RefreshOk("interceptor", d, t)
  \/ \E st \in Statuses : RefreshFail("interceptor", st)

\* the refresh request the interceptor awaits eventually resolves or rejects
FairSpec == Spec /\ WF_vars(InterceptorRefreshSettles)

\* the values the variables take
TypeOK ==
  /\ oAuth = NULL \/ oAuth.accessToken \in Tokens
  /\ user \in {NULL, UserData}
  /\ refreshTokenTimeout \in TimerIds \cup {NoTimer}
  /\ isRefreshingToken \in BOOLEAN
  /\ Len(failedRequestsQueue) <= MaxQueue
  /\ RefreshCount <= MaxInFlight
  /\ call \in [Reqs -> {"idle", "sent", "held"}]
  /\ replays \subseteq Reqs
  /\ Authorization \in {<<>>} \cup {Bearer(a) : a \in Tokens}

----------------------------------------------------------------------------
(* Claims *)

\* the refresh awaited by the interceptor was settled in the last step
InterceptorRefreshOk == out.op = "RefreshOk" /\ out.origin = "interceptor"

\* C1: in every reachable state at most one refresh-grant request is in
\* flight, whoever started it (timer callback, immediate call, interceptor).
C1_AtMostOneRefreshInFlight == RefreshCount <= 1

C3_SignInAuthenticates ==
  out.op = "SignInOk" => isAuthenticated /\ ~Throws("getUser", oAuth)

\* C3 amended: right after signIn completed successfully the token bundle is
\* present and getUser() called then does not throw 'Not logged in';
\* isAuthenticated is true then only if a user object was stored before.
C3_SignInStoresBundle ==
  out.op = "SignInOk" =>
    /\ oAuth /= NULL
    /\ ~Throws("getUser", oAuth)
    /\ isAuthenticated <=> user /= NULL

\* signIn completed successfully in a session whose user was never fetched
C3_Witness == out.op = "SignInOk" /\ oAuth /= NULL /\ user = NULL

\* C4 as stated: isAuthenticated is true exactly when the token bundle is
\* present.
C4_AuthenticatedIffBundle == isAuthenticated <=> oAuth /= NULL

\* C4 amended: isAuthenticated is true exactly when the user object is
\* present; it changes only when a getUser() response is stored or signOut()
\* runs, whatever happens to the token bundle.
C4_AuthenticatedIffUser ==
  /\ [](isAuthenticated <=> user /= NULL)
  /\ [][isAuthenticated' /= isAuthenticated =>
          \/ out'.op = "ResponseOk" /\ out'.req = "getUser"
          \/ out'.op = "SignOut"]_vars

\* the user object is present and the token bundle is not
C4_Witness == isAuthenticated /\ oAuth = NULL

\* C5: right after a refresh grant was rejected the token bundle and the
\* user are absent and isAuthenticated is false.
C5_RefreshFailureClearsSession ==
  out.op = "RefreshFail" => oAuth = NULL /\ user = NULL /\ ~isAuthenticated

\* C6: onRefreshTokenFailed is invoked exactly once in the step that handles
\* a rejected refresh grant, whoever started the refresh and whatever is
\* queued behind it, and in no other step.
C6_CallbackOncePerRejection ==
  /\ out.op = "RefreshFail" => out.callbacks = 1
  /\ out.op /= "RefreshFail" => out.callbacks = 0

\* the refresh started by the interceptor was rejected with two requests queued
C6_Witness ==
  /\ out.op = "RefreshFail"
  /\ out.origin = "interceptor"
  /\ Len(out.arrived) >= 2
  /\ out.callbacks = 1

\* C7: an error whose status is not 401, or that arrives without a token
\* bundle, or that answers a request to the token endpoint, is passed on to
\* its caller as it is: nothing is queued, no refresh grant is sent and the
\* in-flight flag is not set.
C7_OtherErrorsPropagate ==
  [][(out'.status /= 0
        /\ (out'.status /= Unauthorized \/ oAuth = NULL \/ out'.url = TokenUrl))
     => /\ out'.propagated
        /\ ~out'.queued
        /\ out'.refreshSent = 0
        /\ isRefreshingToken' => isRefreshingToken
        /\ Len(failedRequestsQueue') <= Len(failedRequestsQueue)
        /\ out'.op \in {"SignInFail", "ResponseErr"} =>
             out'.result = "rejected" /\ out'.err = out'.status]_vars

\* a 401 answered to a refresh grant while requests wait in the queue
C7_Witness ==
  /\ out.op = "RefreshFail"
  /\ out.status = Unauthorized
  /\ out.url = TokenUrl
  /\ out.arrived /= <<>>
  /\ out.propagated

C9_SignOutIdempotent ==
  /\ [](ENABLED SignOut)
  /\ [][out'.op = "SignOut"
        => /\ oAuth' = NULL
           /\ user' = NULL
           /\ timers' = {}
           /\ out'.thrown = ""
           /\ out.op = "SignOut" =>
                UNCHANGED <<oAuth, user, refreshTokenTimeout, timers,
                            isRefreshingToken, failedRequestsQueue, holder,
                            signInFlight, refreshInFlight, call, replays>>]_vars

\* signOut() has returned
C9_Witness == out.op = "SignOut" /\ oAuth = NULL /\ refreshTokenTimeout /= NoTimer

\* C10: a call whose error reached the interceptor is rejected with that
\* error: at once, or, for the call whose handler awaits the refresh, when
\* the refresh is settled, accepted or rejected; it is never fulfilled.
C10_OriginalCallRejects ==
  [][/\ (out'.op \in {"ResponseErr", "SignInFail"})
          => \/ out'.result = "rejected" /\ out'.err = out'.status
             \/ /\ out'.result = "pending"
                /\ holder' = [req |-> out'.req, err |-> out'.status, replay |-> FALSE]
                /\ call'[out'.req] = "held"
     /\ \A r \in Reqs :
          call[r] = "held" =>
            \/ call'[r] = "held" /\ holder' = holder
            \/ /\ out'.op \in {"RefreshOk", "RefreshFail"}
               /\ out'.req = r
               /\ out'.result = "rejected"
               /\ out'.err = holder.err
               /\ holder.err = Unauthorized]_vars

\* the refresh was accepted, the queue replayed, and the call that started
\* the refresh rejected with its 401
C10_Witness ==
  /\ InterceptorRefreshOk
  /\ out.req \in Reqs
  /\ out.result = "rejected"
  /\ out.err = Unauthorized
  /\ out.replayed /= <<>>

\* C11: when the token request of signIn fails, signIn rejects with that
\* error and afterwards the bundle is absent and isAuthenticated is false,
\* whatever the state before, an earlier session still active included.
C11_SignInFailureUnauthenticated ==
  out.op = "SignInFail" =>
    /\ out.result = "rejected"
    /\ out.err = out.status
    /\ oAuth = NULL
    /\ ~isAuthenticated

\* C11, amended: when the token request of signIn fails, signIn rejects with
\* that error and leaves the session as it was: bundle, user, timer, flag
\* and queue keep their values.
C11_SignInFailureKeepsSession ==
  [][out'.op = "SignInFail"
       => /\ out'.result = "rejected"
          /\ out'.err = out'.status
          /\ UNCHANGED <<oAuth, user, refreshTokenTimeout, timers,
                         isRefreshingToken, failedRequestsQueue,
                         refreshInFlight>>]_vars

\* signIn was rejected while the bundle of an earlier session is stored
C11_Witness ==
  /\ out.op = "SignInFail"
  /\ out.result = "rejected"
  /\ oAuth /= NULL

\* C12: after every change of the bundle, once the watcher has run, the
\* 'oAuth' item is the serialized current bundle (and parses back to it)
\* and the default Authorization header is 'Bearer <current access token>',
\* or empty without a bundle; getUser and revoke send their request under
\* the header of the current bundle, never of an older one.
C12_WatcherInSync ==
  /\ localStorage = JSONstringify(oAuth)
  /\ JSONparse(localStorage) = oAuth
  /\ Authorization = IF oAuth = NULL THEN <<>> ELSE Bearer(oAuth.accessToken)
  /\ (out.op = "Call" /\ out.otherSent = 1)
       => /\ oAuth /= NULL
          /\ out.authorization = Bearer(oAuth.accessToken)

\* the bundle persisted at start-up was replaced, and getUser or revoke sent
\* its request under the header of the new bundle
C12_Witness ==
  /\ out.op = "Call"
  /\ out.otherSent = 1
  /\ oAuth /= NULL
  /\ oAuth.accessToken = 2
  /\ out.authorization = Bearer(2)
  /\ localStorage[2] = 2

\* the last step was one of revoke(): its call, or the answer to its request
RevokeStep(o) ==
  o.req = "revoke" /\ o.op \in {"Call", "ResponseOk", "ResponseErr"}

Scheduled ==
  /\ shouldRefreshToken
  /\ oAuth /= NULL
  /\ out.op \in {"SignInOk", "RefreshOk", "useAuth"}

C15_AtMostOneTimer ==
  /\ Cardinality(timers) <= 1
  /\ \A x \in timers : x.id = refreshTokenTimeout

\* a further instance scheduled while a callback was pending: the earlier
\* callback is gone and the new one is the only one
C15_Witness ==
  /\ out.op = "useAuth"
  /\ refreshTokenTimeout = 2
  /\ timers = {[id |-> 2, delay |-> 60000]}

\* C16: whenever the interceptor has set isRefreshingToken, the refresh it
\* awaits is outstanding (the flag is never left true without one), and,
\* given that this refresh is eventually answered, the flag is eventually
\* false again with the queue emptied; the step that settles the refresh is
\* the one that clears both.
C16_FlagEventuallyReset ==
  /\ [](isRefreshingToken => refreshInFlight["interceptor"] > 0)
  /\ [][isRefreshingToken /\ out'.op \in {"RefreshOk", "RefreshFail"}
          /\ out'.origin = "interceptor"
          => ~isRefreshingToken' /\ failedRequestsQueue' = <<>>]_vars
  /\ (isRefreshingToken ~> (~isRefreshingToken /\ failedRequestsQueue = <<>>))

\* the refresh the interceptor started was rejected while a second request
\* was queued, and the flag and the queue are clear again
C16_Witness ==
  /\ out.op = "RefreshFail"
  /\ out.origin = "interceptor"
  /\ Len(out.arrived) = 2
  /\ ~isRefreshingToken
  /\ failedRequestsQueue = <<>>

C18_SignOutIsFinal ==
  [][(out.op = "SignOut" /\ out'.op /= "SignInOk")
       => oAuth' = NULL /\ timers' = {}]_vars

\* C19: in every reachable state without a bundle no refresh-timer callback
\* is pending, and a timer callback never runs refreshToken() without a
\* bundle: it never raises 'Not logged in'.
C19_NoTimerWithoutBundle ==
  /\ oAuth = NULL => timers = {}
  /\ out.op = "TimerFire" => out.thrown = ""

\* C20: a replayed request that is answered 401 again is not queued and
\* replayed again and starts no further refresh, so one protected request
\* causes a bounded number of refreshes and replays.
C20_ReplayNotQueuedAgain ==
  out.op = "ReplayErr" => ~out.queued /\ out.refreshSent = 0

====
